---- MODULE Spec2Model ----
(***************************************************************************)
(* Request pipeline of the SportMonks TypeScript SDK: the players resource *)
(* wrapper, BaseResource.request() with its retry loop, shouldRetry(),     *)
(* handleError() and the SportMonksError it produces.                      *)
(*                                                                         *)
(* Encoding of JavaScript values:                                          *)
(*   - an optional value is a sequence: <<>> is undefined, <<v>> is v;     *)
(*   - a string is a sequence of fragments, so '' is <<>> and a template   *)
(*     literal is the concatenation of its parts;                          *)
(*   - an array used only through includes() is a set.                     *)
(***************************************************************************)
EXTENDS Integers, Sequences, FiniteSets, TLC

\* ------------------------------------------------------------------ bounds

\* Largest maxRetries a caller passes to the constructor.
MaxMaxRetries == 2

\* Most mutating calls made on one builder.
MaxBuilderCalls == 3

\* Most pages the server holds for one collection.
MaxPages == 3

\* Most calls of the fetch function one poller makes.
MaxFetches == 4

\* ------------------------------------------------------- program constants

DefaultMaxRetries == 0
DefaultRetryDelay == 1000
DefaultMaxRetryDelay == 30000
DefaultRetryStatusCodes == {502, 503, 504}
RateLimitStatus == 429
NotFoundStatus == 404
ForbiddenStatus == 403

\* ------------------------------------------------------------------ inputs

\* The request chains of one behaviour (ids of request() calls).
Calls == {1}

\* RetryOptions a caller may hand to the constructor (every field optional).
RetryOptionsInputs ==
    [ maxRetries       : {<<>>} \cup { <<n>> : n \in -1..MaxMaxRetries },
      retryDelay       : {<<>>, <<0>>, <<10>>},
      maxRetryDelay    : {<<>>, <<15>>},
      retryOnRateLimit : {<<>>, <<TRUE>>, <<FALSE>>},
      retryStatusCodes : {<<>>, <<{}>>, <<{503}>>, <<{429, 500}>>} ]

\* The constructor called without retry options.
NoRetryOptions ==
    [ maxRetries |-> <<>>, retryDelay |-> <<>>, maxRetryDelay |-> <<>>,
      retryOnRateLimit |-> <<>>, retryStatusCodes |-> <<>> ]

\* Bodies a successful GET may carry (response.data).
Bodies == {"body A", "body B"}

\* HTTP error statuses the API answers with.
Statuses == {403, 404, 429, 500, 503}

\* response.data of a failed GET: message?, rate_limit?.resets_in_seconds?,
\* errors?.  The API sends the rate-limit hint with a 429.
ErrorData(status) ==
    [ message          : {<<>>, << <<"Upstream says no">> >>},
      resets_in_seconds: IF status = 429 THEN {<<>>, <<0>>, <<5>>} ELSE {<<>>},
      errors           : {<<>>, <<"field errors">>} ]

\* Errors with an HTTP response, as axios rejects with them.
HttpErrors ==
    UNION { [ isAxiosError : {TRUE},
              response     : { <<[status |-> s, data |-> d]>> : d \in ErrorData(s) },
              message      : { << <<"Request failed with status code ", ToString(s)>> >> } ]
            : s \in Statuses }

\* Transport failures: axios errors without any response.
NetworkErrors ==
    [ isAxiosError : {TRUE}, response : {<<>>}, message : { << <<"Network Error">> >> } ]

\* Exceptions axios.isAxiosError does not recognise (message may be absent or '').
OtherErrors ==
    [ isAxiosError : {FALSE}, response : {<<>>},
      message : { << <<"Something went wrong">> >>, << <<>> >>, <<>> } ]

Errors == HttpErrors \cup NetworkErrors \cup OtherErrors

\* ---------------------------------------------------------------- helpers

Min(a, b) == IF a <= b THEN a ELSE b

\* Math.pow(2, n) for the attempt indexes of the loop.
RECURSIVE Pow2(_)
Pow2(n) == IF n <= 0 THEN 1 ELSE 2 * Pow2(n - 1)

\* Mutant of TruthyStr: only undefined is falsy (?? in place of ||).
TruthyStr_EmptyIsTruthy(o) == o # <<>>

\* JavaScript truthiness of an optional number / optional string.
TruthyNum(o) == o # <<>> /\ o[1] # 0
TruthyStr(o) == o # <<>> /\ o[1] # <<>>

\* error.response?.status and error.response?.data
StatusOf(error) == IF error.response = <<>> THEN <<>> ELSE <<error.response[1].status>>
DataOf(error) == IF error.response = <<>> THEN <<>> ELSE <<error.response[1].data>>

VARIABLES
    poller,         \* the Poller: its options, timers, and the fetches it has made
    client,         \* the SportMonksClient: its options and what it handed to its resources
    retryOptions,   \* this.retryOptions of the resource, set by the constructor
    called,         \* the resource-method call made so far: <<>> or <<[method, id, searchQuery]>>
    builder,        \* the QueryBuilder that call returned: <<>> or <<[endpoint, options]>>
    log,            \* the mutating calls made on the builder so far, in order
    ga,             \* the getAll() call on the builder: its loop state and its promise
    params,         \* per call: the params request() was given and hands to client.get()
    pc,             \* per request() call: "idle", "get", "sleep", "resolved", "rejected"
    url,            \* per call: const url of request()
    attempt,        \* per call: the loop variable
    lastError,      \* per call: let lastError (<<>> while undefined)
    settled,        \* per call: what the promise resolved / rejected with
    gets,           \* per call: number of client.get() invocations
    lastGet,        \* per call: outcome of the latest client.get()
    sleeps          \* per call: the ms of every sleep() so far, in order

vars == <<poller, client, retryOptions, called, builder, log, ga, params, pc, url, attempt, lastError,
          settled, gets, lastGet, sleeps>>

\* ------------------------------------------------------------ constructor

\* Mutant of BaseResource: the default of maxRetries is 3 instead of 0.
BaseResource_DefaultThreeRetries(opts) ==
    [ maxRetries       |-> IF TruthyNum(opts.maxRetries) THEN opts.maxRetries[1] ELSE 3,
      retryDelay       |-> IF TruthyNum(opts.retryDelay) THEN opts.retryDelay[1]
                           ELSE DefaultRetryDelay,
      maxRetryDelay    |-> IF TruthyNum(opts.maxRetryDelay) THEN opts.maxRetryDelay[1]
                           ELSE DefaultMaxRetryDelay,
      retryOnRateLimit |-> IF opts.retryOnRateLimit # <<>> THEN opts.retryOnRateLimit[1]
                           ELSE TRUE,
      retryStatusCodes |-> IF opts.retryStatusCodes # <<>> THEN opts.retryStatusCodes[1]
                           ELSE DefaultRetryStatusCodes ]

\* BaseResource constructor: the retry options with their defaults applied
\* (|| replaces undefined and 0, ?? replaces only undefined).
BaseResource(opts) ==
    [ maxRetries       |-> IF TruthyNum(opts.maxRetries) THEN opts.maxRetries[1]
                           ELSE DefaultMaxRetries,
      retryDelay       |-> IF TruthyNum(opts.retryDelay) THEN opts.retryDelay[1]
                           ELSE DefaultRetryDelay,
      maxRetryDelay    |-> IF TruthyNum(opts.maxRetryDelay) THEN opts.maxRetryDelay[1]
                           ELSE DefaultMaxRetryDelay,
      retryOnRateLimit |-> IF opts.retryOnRateLimit # <<>> THEN opts.retryOnRateLimit[1]
                           ELSE TRUE,
      retryStatusCodes |-> IF opts.retryStatusCodes # <<>> THEN opts.retryStatusCodes[1]
                           ELSE DefaultRetryStatusCodes ]

\* ------------------------------------------------------------------ client

DefaultIncludeSeparator == ";"

\* Options a caller may hand to the SportMonksClient constructor.
ClientOptionsInputs == [ includeSeparator : {<<>>, <<",">>} ]

NoClientOptions == [ includeSeparator |-> <<>> ]

\* The resources the client creates.
Resources == { "leagues", "teams", "players", "standings", "livescores", "coaches",
               "referees", "transfers", "venues", "fixtures" }

\* Mutant of SportMonksClient: the default separator is ','.
SportMonksClient_CommaDefault(options) ==
    LET merged == [ includeSeparator |->
                      IF options.includeSeparator = <<>> THEN "," 
                      ELSE options.includeSeparator[1] ]
    IN  [ given     |-> options,
          options   |-> merged,
          resources |-> [ r \in Resources |-> [includeSeparator |-> merged.includeSeparator] ] ]

\* SportMonksClient constructor: the defaults merged with the caller's options,
\* and the separator every resource is constructed with (given records the
\* argument of the call).
SportMonksClient(options) ==
    LET merged == [ includeSeparator |->
                      IF options.includeSeparator = <<>> THEN DefaultIncludeSeparator
                      ELSE options.includeSeparator[1] ]
    IN  [ given     |-> options,
          options   |-> merged,
          resources |-> [ r \in Resources |-> [includeSeparator |-> merged.includeSeparator] ] ]

\* --------------------------------------------------------- players resource

BasePath == <<"/football/players">>

\* Ids handed to byId(): a number or, through `as any`, a string.
Ids == { [type |-> "number", n |-> 1,  s |-> <<>>],
         [type |-> "number", n |-> 0,  s |-> <<>>],
         [type |-> "number", n |-> -1, s |-> <<>>],
         [type |-> "string", n |-> 0,  s |-> <<"invalid-id">>] }

\* Search queries: strings over a two-character alphabet, up to two characters.
QueryChars == {"a", " "}
SearchQueries == UNION { [1..n -> QueryChars] : n \in 0..2 }

\* `${id}` in a template literal.
TemplateOf(id) == IF id.type = "number" THEN <<ToString(id.n)>> ELSE id.s

\* encodeURIComponent: unreserved characters stay, the others are percent-encoded.
encodeURIComponent(str) == [ i \in 1..Len(str) |-> IF str[i] = " " THEN "%20" ELSE str[i] ]

\* Mutant of QueryBuilder: the options start with the API's pagination defaults.
QueryBuilder_DefaultPagination(endpoint) ==
    [ endpoint |-> endpoint,
      includes |-> <<>>,
      selects  |-> <<>>,
      filters  |-> <<>>,
      order    |-> <<>>,
      page     |-> <<1>>,
      perPage  |-> <<25>> ]

\* new QueryBuilder(resource, endpoint): the endpoint and empty QueryOptions.
\* includes and selects are ordered lists, filters is the ordered list of the
\* entries of the filter object, order / page / perPage are optional.
QueryBuilder(endpoint) ==
    [ endpoint |-> endpoint,
      includes |-> <<>>,
      selects  |-> <<>>,
      filters  |-> <<>>,
      order    |-> <<>>,
      page     |-> <<>>,
      perPage  |-> <<>> ]

NoArgs == [id |-> <<>>, searchQuery |-> <<>>]

\* One behaviour follows one request chain: one resource-method call (guard
\* called = <<>>), then the request() of the builder it returned.

all ==
    /\ called = <<>>
    /\ called' = <<[method |-> "all"] @@ NoArgs>>
    /\ builder' = <<QueryBuilder(<<>>)>>
    /\ UNCHANGED <<poller, client, retryOptions, log, ga, params, pc, url, attempt, lastError, settled,
                   gets, lastGet, sleeps>>

byId(id) ==
    /\ called = <<>>
    /\ called' = <<[method |-> "byId", id |-> <<id>>, searchQuery |-> <<>>]>>
    /\ builder' = <<QueryBuilder(<<"/">> \o TemplateOf(id))>>
    /\ UNCHANGED <<poller, client, retryOptions, log, ga, params, pc, url, attempt, lastError, settled,
                   gets, lastGet, sleeps>>

search(searchQuery) ==
    /\ called = <<>>
    /\ called' = <<[method |-> "search", id |-> <<>>, searchQuery |-> <<searchQuery>>]>>
    /\ LET encodedQuery == encodeURIComponent(searchQuery)
       IN  builder' = <<QueryBuilder(<<"/search/">> \o encodedQuery)>>
    /\ UNCHANGED <<poller, client, retryOptions, log, ga, params, pc, url, attempt, lastError, settled,
                   gets, lastGet, sleeps>>


\* ------------------------------------------------------------ query builder

\* Values of the builder calls.
IncludeInputs == { <<"country">>, <<"venue", "country">> }
SelectInputs == { <<"id">>, <<"name", "id">> }
FilterKeys == {"a", "b"}
\* A filter value: a scalar (one item) or an array of scalars.
Scalar(x) == [array |-> FALSE, items |-> <<x>>]
Array(xs) == [array |-> TRUE, items |-> xs]
FilterInputs == { <<"a", Scalar(1)>>, <<"a", Array(<<1, 2>>)>>, <<"b", Scalar(3)>> }
OrderInputs == {"-name"}
PageInputs == {2}
PerPageInputs == {10}
LimitInputs == {50}

\* The record of one mutating call, as kept in log.
Call(method, names, key, value, n) ==
    [method |-> method, names |-> names, key |-> key, value |-> value, n |-> n]

\* Mutant of AddUnique: nothing is skipped.
AddUnique_KeepsDuplicates(list, names) == list \o names

\* names appended to list, skipping the ones already there (dedup on insert).
RECURSIVE AddUnique(_, _)
AddUnique(list, names) ==
    IF names = <<>> THEN list
    ELSE AddUnique(IF \E i \in 1..Len(list) : list[i] = Head(names)
                   THEN list ELSE Append(list, Head(names)),
                   Tail(names))

\* Mutant of SetFilter: a key that is already set keeps its first value.
SetFilter_FirstWriteWins(filters, key, value) ==
    IF \E i \in 1..Len(filters) : filters[i].key = key
    THEN filters
    ELSE Append(filters, [key |-> key, value |-> value])

\* filters[key] = value on an object: an existing key keeps its place.
SetFilter(filters, key, value) ==
    IF \E i \in 1..Len(filters) : filters[i].key = key
    THEN [ i \in 1..Len(filters) |->
             IF filters[i].key = key THEN [key |-> key, value |-> value] ELSE filters[i] ]
    ELSE Append(filters, [key |-> key, value |-> value])

\* A mutating call: the builder's options change, the same builder is returned.
Mutate(b, call) ==
    /\ builder # <<>>
    /\ ga.pc = "idle"
    /\ \A c \in DOMAIN pc : pc[c] = "idle"
    /\ Len(log) < MaxBuilderCalls
    /\ builder' = <<b>>
    /\ log' = Append(log, call)
    /\ UNCHANGED <<poller, client, retryOptions, called, ga, params, pc, url, attempt, lastError,
                   settled, gets, lastGet, sleeps>>

include(names) ==
    Mutate([builder[1] EXCEPT !.includes = AddUnique(@, names)],
           Call("include", names, "", Scalar(0), 0))

select(names) ==
    Mutate([builder[1] EXCEPT !.selects = AddUnique(@, names)],
           Call("select", names, "", Scalar(0), 0))

filter(key, value) ==
    Mutate([builder[1] EXCEPT !.filters = SetFilter(@, key, value)],
           Call("filter", <<>>, key, value, 0))

orderBy(field) ==
    Mutate([builder[1] EXCEPT !.order = <<field>>],
           Call("orderBy", <<field>>, "", Scalar(0), 0))

page(n) ==
    Mutate([builder[1] EXCEPT !.page = <<n>>], Call("page", <<>>, "", Scalar(0), n))

perPage(n) ==
    Mutate([builder[1] EXCEPT !.perPage = <<n>>], Call("perPage", <<>>, "", Scalar(0), n))

limit(n) ==
    Mutate([builder[1] EXCEPT !.perPage = <<n>>], Call("limit", <<>>, "", Scalar(0), n))

\* ------------------------------------------------------- parameter encoder

\* parts.join(sep) on strings that are sequences of fragments.
RECURSIVE Join(_, _)
Join(parts, sep) ==
    IF parts = <<>> THEN <<>>
    ELSE IF Len(parts) = 1 THEN parts[1]
    ELSE parts[1] \o <<sep>> \o Join(Tail(parts), sep)

\* String(x) of each item of a filter value.
Stringified(items) == [ i \in 1..Len(items) |-> <<ToString(items[i])>> ]

\* key:value, an array value joined by ','.
FilterEntry(entry) == <<entry.key, ":">> \o Join(Stringified(entry.value.items), ",")

\* The include separator of the builder's resource.
SeparatorOf(b) == client.resources["players"].includeSeparator

\* Mutant of encodeFilters: the entries are joined with the include separator.
encodeFilters_IncludeSeparator(b) ==
    Join([i \in 1..Len(b.filters) |-> FilterEntry(b.filters[i])], SeparatorOf(b))

\* The filters parameter: the entries joined by ';'.
encodeFilters(b) == Join([i \in 1..Len(b.filters) |-> FilterEntry(b.filters[i])], ";")

\* The params object get() hands to request(): a key is present (not <<>>)
\* only for an option that was set.
buildParams(b) ==
    [ include  |-> IF b.includes = <<>> THEN <<>>
                   ELSE << Join([i \in 1..Len(b.includes) |-> <<b.includes[i]>>],
                                SeparatorOf(b)) >>,
      select   |-> IF b.selects = <<>> THEN <<>>
                   ELSE << Join([i \in 1..Len(b.selects) |-> <<b.selects[i]>>], ",") >>,
      filters  |-> IF b.filters = <<>> THEN <<>>
                   ELSE << encodeFilters(b) >>,
      order    |-> IF b.order = <<>> THEN <<>> ELSE << <<b.order[1]>> >>,
      page     |-> b.page,
      per_page |-> b.perPage ]

\* getAll() before it is called.
GetAllIdle == [pc |-> "idle", page |-> 0, results |-> <<>>, settled |-> <<>>]

\* ------------------------------------------------------------------ errors

\* Mutant of SportMonksError: apiMessage repeats the message of the error.
SportMonksError_ApiMessageIsMessage(message, statusCode, apiMessage, errors) ==
    [ name       |-> "SportMonksError",
      message    |-> IF message = <<>> THEN <<>> ELSE message[1],
      statusCode |-> statusCode,
      apiMessage |-> message,
      errors     |-> errors ]

\* new SportMonksError(message, statusCode, apiMessage, errors); super(undefined)
\* leaves the message ''.
SportMonksError(message, statusCode, apiMessage, errors) ==
    [ name       |-> "SportMonksError",
      message    |-> IF message = <<>> THEN <<>> ELSE message[1],
      statusCode |-> statusCode,
      apiMessage |-> apiMessage,
      errors     |-> errors ]

\* What reading `.message` of undefined throws.
TypeError ==
    [ name       |-> "TypeError",
      message    |-> <<"Cannot read properties of undefined (reading 'message')">>,
      statusCode |-> <<>>,
      apiMessage |-> <<>>,
      errors     |-> <<>> ]

\* Mutant of handleError: the status code is not handed to the SportMonksError.
handleError_DropsStatus(error, u) ==
    IF error = <<>> THEN TypeError
    ELSE LET e == error[1]
             dataMessage == IF DataOf(e) = <<>> THEN <<>> ELSE DataOf(e)[1].message
         IN  SportMonksError(IF TruthyStr(dataMessage) THEN dataMessage ELSE e.message,
                             <<>>, dataMessage, <<>>)

\* Mutant of handleError: a 404 and a 403 always get the default text, the
\* upstream message is ignored.
handleError_DefaultTextWins(error, u) ==
    IF error = <<>> THEN TypeError
    ELSE LET e == error[1]
             status == StatusOf(e)
             dataMessage == IF DataOf(e) = <<>> THEN <<>> ELSE DataOf(e)[1].message
             dataErrors  == IF DataOf(e) = <<>> THEN <<>> ELSE DataOf(e)[1].errors
         IN  IF status = <<NotFoundStatus>>
             THEN SportMonksError(<< <<"Resource not found: ">> \o u >>, status,
                                  dataMessage, dataErrors)
             ELSE IF status = <<ForbiddenStatus>>
             THEN SportMonksError(
                      << <<"Access forbidden. Check your API key and subscription level.">> >>,
                      status, dataMessage, dataErrors)
             ELSE SportMonksError(IF TruthyStr(dataMessage) THEN dataMessage ELSE e.message,
                                  status, dataMessage, dataErrors)

\* handleError(error, url): the value request() rejects with.  `error` is optional:
\* it is lastError, still undefined when the loop body never ran.
handleError(error, u) ==
    IF error = <<>> THEN TypeError
    ELSE LET e == error[1] IN
      IF e.isAxiosError
      THEN LET errorData   == DataOf(e)
               status      == StatusOf(e)
               dataMessage == IF errorData = <<>> THEN <<>> ELSE errorData[1].message
               dataErrors  == IF errorData = <<>> THEN <<>> ELSE errorData[1].errors
               resetIn     == IF errorData = <<>> THEN <<>>
                              ELSE errorData[1].resets_in_seconds
               fallback    == IF TruthyStr(dataMessage) THEN dataMessage ELSE e.message
               message     ==
                   IF status = <<NotFoundStatus>>
                   THEN IF TruthyStr(dataMessage) THEN dataMessage
                        ELSE << <<"Resource not found: ">> \o u >>
                   ELSE IF status = <<ForbiddenStatus>>
                   THEN IF TruthyStr(dataMessage) THEN dataMessage
                        ELSE << <<"Access forbidden. Check your API key and subscription level.">> >>
                   ELSE IF status = <<RateLimitStatus>>
                   THEN IF TruthyNum(resetIn)
                        THEN << <<"Rate limit exceeded. Resets in ", ToString(resetIn[1]),
                                  " seconds.">> >>
                        ELSE << <<"Rate limit exceeded. Please wait before making more requests.">> >>
                   ELSE fallback
           IN  SportMonksError(message, status, dataMessage, dataErrors)
      ELSE SportMonksError(
               IF TruthyStr(e.message) THEN e.message ELSE << <<"Unknown error occurred">> >>,
               <<>>, <<>>, <<>>)

\* ------------------------------------------------------------------- retry

\* Mutant of shouldRetry: an error without status is looked up in
\* retryStatusCodes like any other, so it is never retried.
shouldRetry_NetworkByList(error, attemptIndex) ==
    IF attemptIndex >= retryOptions.maxRetries THEN FALSE
    ELSE IF ~error.isAxiosError THEN FALSE
    ELSE LET status == StatusOf(error) IN
         IF ~TruthyNum(status) THEN FALSE
         ELSE IF status[1] = RateLimitStatus /\ retryOptions.retryOnRateLimit THEN TRUE
         ELSE status[1] \in retryOptions.retryStatusCodes

\* Mutant of shouldRetry: every 5xx status is retried, retryStatusCodes is ignored.
shouldRetry_AnyServerError(error, attemptIndex) ==
    IF attemptIndex >= retryOptions.maxRetries THEN FALSE
    ELSE IF ~error.isAxiosError THEN FALSE
    ELSE LET status == StatusOf(error) IN
         IF ~TruthyNum(status) THEN TRUE
         ELSE IF status[1] = RateLimitStatus /\ retryOptions.retryOnRateLimit THEN TRUE
         ELSE status[1] >= 500

\* shouldRetry(error, attempt)
shouldRetry(error, attemptIndex) ==
    IF attemptIndex >= retryOptions.maxRetries THEN FALSE
    ELSE IF ~error.isAxiosError THEN FALSE
    ELSE LET status == StatusOf(error) IN
         IF ~TruthyNum(status) THEN TRUE
         ELSE IF status[1] = RateLimitStatus /\ retryOptions.retryOnRateLimit THEN TRUE
         ELSE status[1] \in retryOptions.retryStatusCodes

\* Mutant of BackoffDelay: the delay is not capped by maxRetryDelay.
BackoffDelay_Uncapped(attemptIndex) == retryOptions.retryDelay * Pow2(attemptIndex)

\* The exponential backoff computed in the catch block.
BackoffDelay(attemptIndex) ==
    Min(retryOptions.retryDelay * Pow2(attemptIndex), retryOptions.maxRetryDelay)

\* The reset hint of a 429: error.response.data?.rate_limit?.resets_in_seconds
\* (read only when the error is an axios error with status 429).
ResetIn(error) ==
    IF error.isAxiosError /\ StatusOf(error) = <<RateLimitStatus>>
    THEN DataOf(error)[1].resets_in_seconds
    ELSE <<>>

\* The ms handed to sleep() after a failed attempt that is retried.
SleepMs(error, attemptIndex) ==
    IF TruthyNum(ResetIn(error)) THEN ResetIn(error)[1] * 1000
    ELSE BackoffDelay(attemptIndex)

\* The settled promise of request(): `return v` and `throw r`.
Resolved(v) == <<[resolved |-> TRUE, value |-> <<v>>, reason |-> <<>>]>>
Rejected(r) == <<[resolved |-> FALSE, value |-> <<>>, reason |-> <<r>>]>>

\* Mutant of LoopHead: the loop variable is a field of the resource, shared by
\* the calls in flight.
LoopHead_SharedAttempt(c, a, err) ==
    /\ attempt' = [x \in DOMAIN attempt |-> a]
    /\ IF a <= retryOptions.maxRetries
       THEN /\ pc' = [pc EXCEPT ![c] = "get"]
            /\ gets' = [gets EXCEPT ![c] = @ + 1]
            /\ UNCHANGED settled
       ELSE /\ pc' = [pc EXCEPT ![c] = "rejected"]
            /\ settled' = [settled EXCEPT ![c] = Rejected(handleError(err, url'[c]))]
            /\ UNCHANGED gets

\* Head of the for loop with the loop variable at a: either the next client.get()
\* is issued, or the loop is over and the statement after it throws.
LoopHead(c, a, err) ==
    /\ attempt' = [attempt EXCEPT ![c] = a]
    /\ IF a <= retryOptions.maxRetries
       THEN /\ pc' = [pc EXCEPT ![c] = "get"]
            /\ gets' = [gets EXCEPT ![c] = @ + 1]
            /\ UNCHANGED settled
       ELSE /\ pc' = [pc EXCEPT ![c] = "rejected"]
            /\ settled' = [settled EXCEPT ![c] = Rejected(handleError(err, url'[c]))]
            /\ UNCHANGED gets

\* Mutant of request: get() hands over the accumulated options and clears them.
request_ConsumesOptions(c) ==
    /\ pc[c] = "idle"
    /\ builder # <<>>
    /\ url' = [url EXCEPT ![c] = BasePath \o builder[1].endpoint]
    /\ params' = [params EXCEPT ![c] = <<buildParams(builder[1])>>]
    /\ builder' = <<[ endpoint |-> builder[1].endpoint, includes |-> <<>>, selects |-> <<>>,
                      filters |-> <<>>, order |-> <<>>, page |-> <<>>, perPage |-> <<>> ]>>
    /\ LoopHead(c, 0, <<>>)
    /\ UNCHANGED <<poller, client, retryOptions, called, log, ga, lastError, lastGet, sleeps>>

\* request(endpoint, params), up to its first suspension: called by the builder's
\* get() with the builder's endpoint.
request(c) ==
    /\ pc[c] = "idle"
    /\ builder # <<>>
    /\ url' = [url EXCEPT ![c] = BasePath \o builder[1].endpoint]
    /\ params' = [params EXCEPT ![c] = <<buildParams(builder[1])>>]
    /\ LoopHead(c, 0, <<>>)
    /\ UNCHANGED <<poller, client, retryOptions, called, builder, log, ga, lastError, lastGet, sleeps>>

\* Mutant of getFulfilled: the body is not returned, the loop goes on.
getFulfilled_NoReturn(c, data) ==
    /\ pc[c] = "get"
    /\ lastGet' = [lastGet EXCEPT ![c] = <<[ok |-> TRUE, data |-> <<data>>, error |-> <<>>]>>]
    /\ LoopHead(c, attempt[c] + 1, lastError[c])
    /\ UNCHANGED <<poller, client, retryOptions, called, builder, log, ga, params, url, lastError, sleeps>>

\* await this.client.get(...) fulfils: return response.data.
getFulfilled(c, data) ==
    /\ pc[c] = "get"
    /\ lastGet' = [lastGet EXCEPT ![c] = <<[ok |-> TRUE, data |-> <<data>>, error |-> <<>>]>>]
    /\ pc' = [pc EXCEPT ![c] = "resolved"]
    /\ settled' = [settled EXCEPT ![c] = Resolved(data)]
    /\ UNCHANGED <<poller, client, retryOptions, called, builder, log, ga, params, url, attempt, lastError,
                   gets, sleeps>>

\* await this.client.get(...) rejects: the catch block, up to the throw or the sleep.
getRejected(c, error) ==
    /\ pc[c] = "get"
    /\ lastGet' = [lastGet EXCEPT ![c] = <<[ok |-> FALSE, data |-> <<>>, error |-> <<error>>]>>]
    /\ lastError' = [lastError EXCEPT ![c] = <<error>>]
    /\ IF ~shouldRetry(error, attempt[c])
       THEN /\ pc' = [pc EXCEPT ![c] = "rejected"]
            /\ settled' = [settled EXCEPT ![c] = Rejected(handleError(<<error>>, url[c]))]
            /\ UNCHANGED sleeps
       ELSE /\ pc' = [pc EXCEPT ![c] = "sleep"]
            /\ sleeps' = [sleeps EXCEPT ![c] = Append(@, SleepMs(error, attempt[c]))]
            /\ UNCHANGED settled
    /\ UNCHANGED <<poller, client, retryOptions, called, builder, log, ga, params, url, attempt, gets>>

\* Mutant of sleepElapsed: the `continue` after a hinted 429 sleep skips attempt++.
sleepElapsed_ContinueSkipsIncrement(c) ==
    /\ pc[c] = "sleep"
    /\ IF TruthyNum(ResetIn(lastError[c][1]))
       THEN LoopHead(c, attempt[c], lastError[c])
       ELSE LoopHead(c, attempt[c] + 1, lastError[c])
    /\ UNCHANGED <<poller, client, retryOptions, called, builder, log, ga, params, url, lastError, lastGet,
                   sleeps>>

\* Mutant of sleepElapsed: the timer fires but the promise of sleep() is never
\* resolved, so the loop does not go on.
sleepElapsed_NeverResolves(c) ==
    /\ pc[c] = "sleep"
    /\ UNCHANGED vars

\* The timer of sleep() fires: attempt++ and the loop head (also after `continue`).
sleepElapsed(c) ==
    /\ pc[c] = "sleep"
    /\ LoopHead(c, attempt[c] + 1, lastError[c])
    /\ UNCHANGED <<poller, client, retryOptions, called, builder, log, ga, params, url, lastError, lastGet,
                   sleeps>>

\* ------------------------------------------------------------------ getAll

\* The pages of one collection; page j is fetched by request() call j.
Pages == 1..MaxPages

\* The items a page may hold (tagged with their page) and the paginated
\* envelopes the API may answer page j with; the last page has no successor.
PageItems(j) ==
    { <<>>, <<[page |-> j, item |-> 1]>>, <<[page |-> j, item |-> 1], [page |-> j, item |-> 2]>> }

Envelopes(j) ==
    { [data |-> d, pagination |-> [has_more |-> h]] :
        d \in PageItems(j), h \in (IF j < MaxPages THEN BOOLEAN ELSE {FALSE}) }

\* The failures a page request may meet.
GetAllErrors ==
    NetworkErrors \cup
    { e \in HttpErrors : /\ e.response[1].status \in {404, 503}
                         /\ e.response[1].data.message = <<>>
                         /\ e.response[1].data.errors = <<>> }

\* this.page(n).get(), up to the first suspension of request().
fetchPage(c, n) ==
    /\ pc[c] = "idle"
    /\ builder' = <<[builder[1] EXCEPT !.page = <<n>>]>>
    /\ url' = [url EXCEPT ![c] = BasePath \o builder[1].endpoint]
    /\ params' = [params EXCEPT ![c] = <<buildParams(builder'[1])>>]
    /\ LoopHead(c, 0, <<>>)
    /\ UNCHANGED <<poller, client, retryOptions, called, log, lastError, lastGet, sleeps>>

\* getAll() up to its first await: the loop starts at page 1.
getAll ==
    /\ builder # <<>>
    /\ ga.pc = "idle"
    /\ \A c \in DOMAIN pc : pc[c] = "idle"
    /\ ga' = [pc |-> "waiting", page |-> 1, results |-> <<>>, settled |-> <<>>]
    /\ fetchPage(1, 1)

\* Mutant of getAllResumed: a page without items does not stop the loop.
getAllResumed_IgnoresEmptyPage ==
    /\ ga.pc = "waiting"
    /\ pc[ga.page] \in {"resolved", "rejected"}
    /\ IF pc[ga.page] = "rejected"
       THEN /\ ga' = [ga EXCEPT !.pc = "rejected", !.settled = settled[ga.page]]
            /\ UNCHANGED <<poller, client, retryOptions, called, builder, log, params, pc, url, attempt,
                           lastError, settled, gets, lastGet, sleeps>>
       ELSE LET response == settled[ga.page][1].value[1]
                results == ga.results \o response.data
            IN  IF response.pagination.has_more
                THEN /\ ga' = [ga EXCEPT !.page = @ + 1, !.results = results]
                     /\ fetchPage(ga.page + 1, ga.page + 1)
                ELSE /\ ga' = [ga EXCEPT !.pc = "resolved", !.results = results,
                                         !.settled = Resolved(results)]
                     /\ UNCHANGED <<poller, client, retryOptions, called, builder, log, params, pc,
                                    url, attempt, lastError, settled, gets, lastGet, sleeps>>

\* Mutant of getAllResumed: a failed page ends the loop with the items so far.
getAllResumed_ReturnsPartial ==
    /\ ga.pc = "waiting"
    /\ pc[ga.page] \in {"resolved", "rejected"}
    /\ IF pc[ga.page] = "rejected"
       THEN /\ ga' = [ga EXCEPT !.pc = "resolved", !.settled = Resolved(ga.results)]
            /\ UNCHANGED <<poller, client, retryOptions, called, builder, log, params, pc, url, attempt,
                           lastError, settled, gets, lastGet, sleeps>>
       ELSE LET response == settled[ga.page][1].value[1]
                results == ga.results \o response.data
            IN  IF response.pagination.has_more /\ Len(response.data) > 0
                THEN /\ ga' = [ga EXCEPT !.page = @ + 1, !.results = results]
                     /\ fetchPage(ga.page + 1, ga.page + 1)
                ELSE /\ ga' = [ga EXCEPT !.pc = "resolved", !.results = results,
                                         !.settled = Resolved(results)]
                     /\ UNCHANGED <<poller, client, retryOptions, called, builder, log, params, pc,
                                    url, attempt, lastError, settled, gets, lastGet, sleeps>>

\* getAll() resumes after `await this.page(page).get()`: a failure is thrown
\* on, the items of a page are pushed, and the loop goes to the next page
\* while the envelope has more and the page held items.
getAllResumed ==
    /\ ga.pc = "waiting"
    /\ pc[ga.page] \in {"resolved", "rejected"}
    /\ IF pc[ga.page] = "rejected"
       THEN /\ ga' = [ga EXCEPT !.pc = "rejected", !.settled = settled[ga.page]]
            /\ UNCHANGED <<poller, client, retryOptions, called, builder, log, params, pc, url, attempt,
                           lastError, settled, gets, lastGet, sleeps>>
       ELSE LET response == settled[ga.page][1].value[1]
                results == ga.results \o response.data
            IN  IF response.pagination.has_more /\ Len(response.data) > 0
                THEN /\ ga' = [ga EXCEPT !.page = @ + 1, !.results = results]
                     /\ fetchPage(ga.page + 1, ga.page + 1)
                ELSE /\ ga' = [ga EXCEPT !.pc = "resolved", !.results = results,
                                         !.settled = Resolved(results)]
                     /\ UNCHANGED <<poller, client, retryOptions, called, builder, log, params, pc,
                                    url, attempt, lastError, settled, gets, lastGet, sleeps>>

\* ------------------------------------------------------------------ poller

\* PollingOptions a caller may hand to the Poller (interval is required).
PollingOptionsInputs ==
    [ interval : {1000}, maxDuration : {<<>>, <<3000>>}, stopOnError : BOOLEAN ]

NoPollingOptions == [ interval |-> 1000, maxDuration |-> <<>>, stopOnError |-> FALSE ]

\* new Poller(fetchFunction, options): not polling, no timer set.  fetches
\* counts the calls of fetchFunction, pending the ones not yet settled;
\* thrown is what the last start() threw, op the last thing that happened.
Poller(options) ==
    [ options    |-> options,
      isPolling  |-> FALSE,
      intervalId |-> FALSE,
      timeoutId  |-> FALSE,
      fetches    |-> 0,
      pending    |-> 0,
      thrown     |-> <<>>,
      op         |-> "new" ]

\* isActive()
isActive == poller.isPolling

\* What the request side of the state is left as by the poller.
requestVars ==
    <<client, retryOptions, called, builder, log, ga, params, pc, url, attempt, lastError,
      settled, gets, lastGet, sleeps>>

\* poll(): one call of fetchFunction.
polled(p) == [p EXCEPT !.fetches = @ + 1, !.pending = @ + 1]

\* Mutant of stopped: the interval timer is left running.
stopped_KeepsInterval(p) == [p EXCEPT !.isPolling = FALSE, !.timeoutId = FALSE]

\* The poller after stop(): both timers cleared, not polling.
stopped(p) == [p EXCEPT !.isPolling = FALSE, !.intervalId = FALSE, !.timeoutId = FALSE]

\* Mutant of start: a second start() is accepted and polls again.
start_Restarts ==
    /\ poller.fetches < MaxFetches
    /\ poller' = [polled(poller) EXCEPT !.isPolling = TRUE, !.intervalId = TRUE,
                                        !.timeoutId = (poller.options.maxDuration # <<>>),
                                        !.thrown = <<>>, !.op = "start"]
    /\ UNCHANGED requestVars

\* start(): throws when already polling; otherwise polls at once, sets the
\* interval timer and, with a maxDuration, the timer that stops the poller.
start ==
    /\ poller.fetches < MaxFetches
    /\ IF poller.isPolling
       THEN poller' = [poller EXCEPT !.thrown = <<"Polling is already active">>,
                                     !.op = "start"]
       ELSE poller' = [polled(poller) EXCEPT !.isPolling = TRUE, !.intervalId = TRUE,
                                             !.timeoutId = (poller.options.maxDuration # <<>>),
                                             !.thrown = <<>>, !.op = "start"]
    /\ UNCHANGED requestVars

\* stop()
stop ==
    /\ poller' = [stopped(poller) EXCEPT !.op = "stop"]
    /\ UNCHANGED requestVars

\* The interval timer fires: poll().
intervalElapsed ==
    /\ poller.intervalId
    /\ poller.fetches < MaxFetches
    /\ poller' = [polled(poller) EXCEPT !.op = "interval"]
    /\ UNCHANGED requestVars

\* The maxDuration timer fires: stop().
maxDurationElapsed ==
    /\ poller.timeoutId
    /\ poller' = [stopped(poller) EXCEPT !.op = "maxDuration"]
    /\ UNCHANGED requestVars

\* A call of fetchFunction resolves.
fetchResolved ==
    /\ poller.pending > 0
    /\ poller' = [poller EXCEPT !.pending = @ - 1, !.op = "resolved"]
    /\ UNCHANGED requestVars

\* A call of fetchFunction rejects: with stopOnError the poller stops.
fetchRejected ==
    /\ poller.pending > 0
    /\ poller' = [(IF poller.options.stopOnError THEN stopped(poller) ELSE poller)
                    EXCEPT !.pending = @ - 1, !.op = "rejected"]
    /\ UNCHANGED requestVars

\* ------------------------------------------------------------ specification

\* The state before any resource method is called, with S the ids of the
\* request() calls the behaviour may make.
Fresh(S) ==
    /\ called = <<>>
    /\ builder = <<>>
    /\ log = <<>>
    /\ ga = GetAllIdle
    /\ params = [c \in S |-> <<>>]
    /\ pc = [c \in S |-> "idle"]
    /\ url = [c \in S |-> <<>>]
    /\ attempt = [c \in S |-> 0]
    /\ lastError = [c \in S |-> <<>>]
    /\ settled = [c \in S |-> <<>>]
    /\ gets = [c \in S |-> 0]
    /\ lastGet = [c \in S |-> <<>>]
    /\ sleeps = [c \in S |-> <<>>]

Init ==
    /\ client = SportMonksClient(NoClientOptions)
    /\ retryOptions \in { BaseResource(opts) : opts \in RetryOptionsInputs }
    /\ Fresh(Calls)
    /\ poller = Poller(NoPollingOptions)

Next ==
    \/ all
    \/ \E id \in Ids : byId(id)
    \/ \E searchQuery \in SearchQueries : search(searchQuery)
    \/ \E c \in Calls : request(c)
    \/ \E c \in Calls, data \in Bodies : getFulfilled(c, data)
    \/ \E c \in Calls, error \in Errors : getRejected(c, error)
    \/ \E c \in Calls : sleepElapsed(c)

Spec == Init /\ [][Next]_vars

\* ---- the query builder: one chain of builder calls, then get() twice

\* The get() calls made on the one builder.
BuilderCalls == {1, 2}

\* What the two GETs may answer with.
BuilderBodies == {"body A"}
BuilderErrors == NetworkErrors

InitBuilder ==
    /\ client \in { SportMonksClient(options) : options \in ClientOptionsInputs }
    /\ retryOptions = BaseResource(NoRetryOptions)
    /\ Fresh(BuilderCalls)
    /\ poller = Poller(NoPollingOptions)

NextBuilder ==
    \/ all
    \/ \E names \in IncludeInputs : include(names)
    \/ \E names \in SelectInputs : select(names)
    \/ \E f \in FilterInputs : filter(f[1], f[2])
    \/ \E field \in OrderInputs : orderBy(field)
    \/ \E n \in PageInputs : page(n)
    \/ \E n \in PerPageInputs : perPage(n)
    \/ \E n \in LimitInputs : limit(n)
    \/ \E c \in BuilderCalls : request(c)
    \/ \E c \in BuilderCalls, data \in BuilderBodies : getFulfilled(c, data)
    \/ \E c \in BuilderCalls, error \in BuilderErrors : getRejected(c, error)

SpecBuilder == InitBuilder /\ [][NextBuilder]_vars

\* ---- getAll(): one collection read page by page

\* The resource retries once, or not at all.
GetAllRetryOptions ==
    { NoRetryOptions, [NoRetryOptions EXCEPT !.maxRetries = <<1>>, !.retryDelay = <<10>>] }

InitGetAll ==
    /\ client = SportMonksClient(NoClientOptions)
    /\ retryOptions \in { BaseResource(opts) : opts \in GetAllRetryOptions }
    /\ Fresh(Pages)
    /\ poller = Poller(NoPollingOptions)

NextGetAll ==
    \/ all
    \/ getAll
    \/ getAllResumed
    \/ \E c \in Pages : \E data \in Envelopes(c) : getFulfilled(c, data)
    \/ \E c \in Pages, error \in GetAllErrors : getRejected(c, error)
    \/ \E c \in Pages : sleepElapsed(c)

SpecGetAll == InitGetAll /\ [][NextGetAll]_vars

\* ---- two request() calls of one resource in flight together

ConcurrentCalls == {1, 2}

\* The resource retries once or twice.
ConcurrentRetryOptions ==
    { [NoRetryOptions EXCEPT !.maxRetries = <<n>>, !.retryDelay = <<10>>] : n \in {1, 2} }

\* What the GETs of the two calls may answer with.
ConcurrentErrors ==
    NetworkErrors \cup
    { e \in HttpErrors : /\ e.response[1].status \in {404, 429, 503}
                         /\ e.response[1].data.message = <<>>
                         /\ e.response[1].data.errors = <<>>
                         /\ e.response[1].data.resets_in_seconds \in {<<>>, <<5>>} }

InitConcurrent ==
    /\ client = SportMonksClient(NoClientOptions)
    /\ retryOptions \in { BaseResource(opts) : opts \in ConcurrentRetryOptions }
    /\ Fresh(ConcurrentCalls)
    /\ poller = Poller(NoPollingOptions)

NextConcurrent ==
    \/ all
    \/ \E c \in ConcurrentCalls : request(c)
    \/ \E c \in ConcurrentCalls, data \in Bodies : getFulfilled(c, data)
    \/ \E c \in ConcurrentCalls, error \in ConcurrentErrors : getRejected(c, error)
    \/ \E c \in ConcurrentCalls : sleepElapsed(c)

SpecConcurrent == InitConcurrent /\ [][NextConcurrent]_vars

\* ---- one request() call whose GETs complete and whose sleeps elapse

FairRetryOptions ==
    [ maxRetries       : {<<>>} \cup { <<n>> : n \in -1..MaxMaxRetries },
      retryDelay       : {<<10>>},
      maxRetryDelay    : {<<>>},
      retryOnRateLimit : {<<TRUE>>, <<FALSE>>},
      retryStatusCodes : {<<>>, <<{429, 500}>>} ]

InitFair ==
    /\ client = SportMonksClient(NoClientOptions)
    /\ retryOptions \in { BaseResource(opts) : opts \in FairRetryOptions }
    /\ Fresh(Calls)
    /\ poller = Poller(NoPollingOptions)

\* client.get() settles.
getSettled(c) ==
    \/ \E data \in Bodies : getFulfilled(c, data)
    \/ \E error \in ConcurrentErrors \cup OtherErrors : getRejected(c, error)

NextFair ==
    \/ all
    \/ \E c \in Calls : request(c)
    \/ \E c \in Calls : getSettled(c)
    \/ \E c \in Calls : sleepElapsed(c)

\* Every pending GET settles and every timer set by sleep() fires.
SpecFair ==
    /\ InitFair
    /\ [][NextFair]_vars
    /\ \A c \in Calls : WF_vars(getSettled(c)) /\ WF_vars(sleepElapsed(c))

\* ---- the poller alone

InitPoller ==
    /\ client = SportMonksClient(NoClientOptions)
    /\ retryOptions = BaseResource(NoRetryOptions)
    /\ Fresh(Calls)
    /\ poller \in { Poller(options) : options \in PollingOptionsInputs }

NextPoller ==
    \/ start
    \/ stop
    \/ intervalElapsed
    \/ maxDurationElapsed
    \/ fetchResolved
    \/ fetchRejected

SpecPoller == InitPoller /\ [][NextPoller]_vars

\* ================================================================= claims

\* The failure of the latest client.get() of call c (read only when GetFailed(c)).
GetFailed(c) == lastGet[c] # <<>> /\ ~lastGet[c][1].ok
GetSucceeded(c) == lastGet[c] # <<>> /\ lastGet[c][1].ok
FailureOf(c) == lastGet[c][1].error[1]
ReasonOf(c) == settled[c][1].reason[1]

\* A step in which the pending client.get() of call c fails; the failure is
\* FailureOf(c)' and the attempt index is attempt[c].
GetFails(c) == pc[c] = "get" /\ pc'[c] \in {"sleep", "rejected"}

\* The failed GET is retried: a sleep starts, after which the loop goes on.
Retried(c) == pc'[c] = "sleep"

\* The call rejects right after the failed GET: no sleep, no further GET.
RejectsAtOnce(c) ==
    /\ pc'[c] = "rejected"
    /\ sleeps'[c] = sleeps[c]
    /\ gets'[c] = gets[c]

\* A settled call stays as it is: no GET and no sleep follow.
StaysSettled(c) ==
    pc[c] \in {"resolved", "rejected"} =>
        /\ pc'[c] = pc[c]
        /\ settled'[c] = settled[c]
        /\ gets'[c] = gets[c]
        /\ sleeps'[c] = sleeps[c]

\* C1: with maxRetries = N >= 0 one request() call issues at most N+1 GETs,
\* whatever the GET outcomes are.
C1_RetriesBounded ==
    \A c \in Calls :
        retryOptions.maxRetries >= 0 => gets[c] <= retryOptions.maxRetries + 1

\* A call that used its whole budget of 3 GETs, one retry of which followed a
\* 429 with a reset hint.
C1_Witness ==
    \E c \in Calls :
        /\ retryOptions.maxRetries = 2
        /\ pc[c] = "rejected"
        /\ gets[c] = 3
        /\ \E i \in 1..Len(sleeps[c]) : sleeps[c][i] = 5000

\* C2: with maxRetries = N >= 0, a call whose GETs all fail with a status of
\* retryStatusCodes issues exactly N+1 GETs and rejects with the final status as
\* statusCode.  Every attempt before the final one was retried, so the final
\* attempt's status is the one that decides: the property is stated for every
\* rejection whose final attempt failed with a status of retryStatusCodes.
C2_ExhaustedKeepsStatus ==
    \A c \in Calls :
        ( /\ retryOptions.maxRetries >= 0
          /\ pc[c] = "rejected"
          /\ GetFailed(c)
          /\ StatusOf(FailureOf(c)) # <<>>
          /\ StatusOf(FailureOf(c))[1] \in retryOptions.retryStatusCodes )
        => /\ gets[c] = retryOptions.maxRetries + 1
           /\ ReasonOf(c).name = "SportMonksError"
           /\ ReasonOf(c).statusCode = StatusOf(FailureOf(c))

\* Three GETs, the last of which failed with 503, a retriable status.
C2_Witness ==
    \E c \in Calls :
        /\ retryOptions.maxRetries = 2
        /\ retryOptions.retryStatusCodes = {503}
        /\ pc[c] = "rejected"
        /\ gets[c] = 3
        /\ GetFailed(c)
        /\ StatusOf(FailureOf(c)) = <<503>>
        /\ ReasonOf(c).statusCode = <<503>>

\* C3: once a GET succeeds, after k retried failures, the call is resolved with
\* that GET's body, k+1 GETs were issued (k <= maxRetries) and none follows.
C3_SuccessReturnsAtOnce ==
    \A c \in Calls :
        GetSucceeded(c) =>
            /\ pc[c] = "resolved"
            /\ settled[c] = Resolved(lastGet[c][1].data[1])
            /\ gets[c] = Len(sleeps[c]) + 1
            /\ Len(sleeps[c]) <= retryOptions.maxRetries

\* Two retried failures, then a success on the third GET.
C3_Witness ==
    \E c \in Calls :
        /\ GetSucceeded(c)
        /\ pc[c] = "resolved"
        /\ Len(sleeps[c]) = 2
        /\ gets[c] = 3
        /\ settled[c] = Resolved("body B")

\* C4 as stated: every GET failure without an HTTP response is retried while
\* attempts remain, whether or not axios.isAxiosError recognises the error.
C4_NoResponseAlwaysRetried ==
    [][ \A c \in Calls :
          ( /\ GetFails(c)
            /\ FailureOf(c)'.response = <<>>
            /\ attempt[c] < retryOptions.maxRetries )
          => Retried(c) ]_vars

\* C4 amended: a failure without response that axios.isAxiosError recognises is
\* retried while attempts remain, whatever retryStatusCodes and retryOnRateLimit
\* are; an error the predicate does not recognise is never retried.
C4_TransportErrorsRetried ==
    [][ \A c \in Calls :
          GetFails(c) =>
            /\ ( /\ FailureOf(c)'.isAxiosError
                 /\ FailureOf(c)'.response = <<>>
                 /\ attempt[c] < retryOptions.maxRetries )
               => Retried(c)
            /\ ~FailureOf(c)'.isAxiosError => RejectsAtOnce(c) ]_vars

\* A network error is being retried although no status is retriable and
\* rate-limit retry is off.
C4_Witness ==
    \E c \in Calls :
        /\ pc[c] = "sleep"
        /\ GetFailed(c)
        /\ FailureOf(c).isAxiosError
        /\ FailureOf(c).response = <<>>
        /\ retryOptions.retryStatusCodes = {}
        /\ ~retryOptions.retryOnRateLimit

\* C5: below maxRetries a 429 failure is retried if and only if retryOnRateLimit
\* is true.
C5_RateLimitRetriedIffFlag ==
    [][ \A c \in Calls :
          ( /\ GetFails(c)
            /\ StatusOf(FailureOf(c)') = <<RateLimitStatus>>
            /\ attempt[c] < retryOptions.maxRetries )
          => (Retried(c) <=> retryOptions.retryOnRateLimit) ]_vars

\* C6: below maxRetries a failure with an HTTP status other than 429 is retried
\* if and only if the status is in retryStatusCodes; otherwise the call rejects
\* right after that attempt, without a sleep and without another GET.
C6_StatusRetriedIffListed ==
    [][ \A c \in Calls :
          /\ ( /\ GetFails(c)
               /\ StatusOf(FailureOf(c)') # <<>>
               /\ StatusOf(FailureOf(c)') # <<RateLimitStatus>>
               /\ attempt[c] < retryOptions.maxRetries )
             => /\ Retried(c) <=>
                      StatusOf(FailureOf(c)')[1] \in retryOptions.retryStatusCodes
                /\ StatusOf(FailureOf(c)')[1] \notin retryOptions.retryStatusCodes
                      => RejectsAtOnce(c)
          /\ StaysSettled(c) ]_vars

\* With attempts left, a 500 outside retryStatusCodes has rejected the call after
\* one GET and no sleep.
C6_Witness ==
    \E c \in Calls :
        /\ retryOptions.maxRetries = 2
        /\ retryOptions.retryStatusCodes = {503}
        /\ pc[c] = "rejected"
        /\ GetFailed(c)
        /\ StatusOf(FailureOf(c)) = <<500>>
        /\ gets[c] = 1
        /\ sleeps[c] = <<>>

\* C7: when a retried 429 carries the hint resets_in_seconds = s, the sleep
\* before the next attempt is exactly s*1000 ms, for every s.
C7_HintedSleepIsExact ==
    [][ \A c \in Calls :
          ( /\ GetFails(c)
            /\ Retried(c)
            /\ StatusOf(FailureOf(c)') = <<RateLimitStatus>>
            /\ DataOf(FailureOf(c)')[1].resets_in_seconds # <<>> )
          => sleeps'[c] =
                Append(sleeps[c], DataOf(FailureOf(c)')[1].resets_in_seconds[1] * 1000) ]_vars

\* C8: a call that is not resolved with a successful GET's body rejects with a
\* SportMonksError, and a call resolves only when a GET succeeded.
C8_AlwaysSportMonksError ==
    \A c \in Calls :
        /\ pc[c] = "rejected" => ReasonOf(c).name = "SportMonksError"
        /\ pc[c] = "resolved" => GetSucceeded(c)

\* C9: a resource constructed without retry options issues exactly one GET per
\* request() call and never sleeps; a failure of any kind rejects the call right
\* after that single GET.
C9_DefaultNeverRetries ==
    \A c \in Calls :
        retryOptions = BaseResource(NoRetryOptions) =>
            /\ gets[c] <= 1
            /\ sleeps[c] = <<>>
            /\ pc[c] \in {"get", "resolved", "rejected"} => gets[c] = 1
            /\ GetFailed(c) => pc[c] = "rejected"

\* A default resource whose single GET failed with 503, a status of the default
\* retryStatusCodes, and which rejected without a retry.
C9_Witness ==
    \E c \in Calls :
        /\ retryOptions = BaseResource(NoRetryOptions)
        /\ pc[c] = "rejected"
        /\ GetFailed(c)
        /\ StatusOf(FailureOf(c)) = <<503>>
        /\ gets[c] = 1

\* The inputs C10 is about: a non-numeric or non-positive id, an empty or
\* one-character search query.
C10_InvalidId(id) == id.type # "number" \/ id.n <= 0
C10_TooShort(q) == Len(q) < 2

\* C10: byId() with a non-numeric or non-positive id and search() with a query
\* shorter than two characters throw at the call: no builder is returned (and
\* so no request can be made from it).
C10_InvalidInputThrows ==
    called # <<>> =>
        /\ ( called[1].method = "byId" /\ C10_InvalidId(called[1].id[1]) )
              => builder = <<>>
        /\ ( called[1].method = "search" /\ C10_TooShort(called[1].searchQuery[1]) )
              => builder = <<>>

\* ------------------------------------------------- error normalisation

\* The upstream body's message of the failed GET of call c.
UpstreamMessageOf(c) == DataOf(FailureOf(c))[1].message
HintOf(c) == DataOf(FailureOf(c))[1].resets_in_seconds

\* C19: a failure with status 404 or 403 surfaces with that status as statusCode;
\* its message is the upstream message when the body has one, otherwise
\* 'Resource not found: <url>' for 404 and the access-forbidden text for 403.
C19_NotFoundAndForbidden ==
    \A c \in Calls :
        ( /\ pc[c] = "rejected"
          /\ GetFailed(c)
          /\ StatusOf(FailureOf(c)) \in {<<NotFoundStatus>>, <<ForbiddenStatus>>} )
        => /\ ReasonOf(c).name = "SportMonksError"
           /\ ReasonOf(c).statusCode = StatusOf(FailureOf(c))
           /\ ReasonOf(c).message =
                IF UpstreamMessageOf(c) # <<>> THEN UpstreamMessageOf(c)[1]
                ELSE IF StatusOf(FailureOf(c)) = <<NotFoundStatus>>
                THEN <<"Resource not found: ">> \o url[c]
                ELSE <<"Access forbidden. Check your API key and subscription level.">>

\* A 404 whose body has a message surfaced with that message, for a request
\* made through byId(1).
C19_Witness ==
    \E c \in Calls :
        /\ pc[c] = "rejected"
        /\ GetFailed(c)
        /\ StatusOf(FailureOf(c)) = <<NotFoundStatus>>
        /\ UpstreamMessageOf(c) # <<>>
        /\ ReasonOf(c).message = <<"Upstream says no">>
        /\ url[c] = <<"/football/players", "/", "1">>

\* C20: a failure with status 429 surfaces with the message naming the reset
\* hint when the body carries rate_limit.resets_in_seconds, and with the generic
\* rate-limit message otherwise, whatever message the body has.
C20_RateLimitMessage ==
    \A c \in Calls :
        ( /\ pc[c] = "rejected"
          /\ GetFailed(c)
          /\ StatusOf(FailureOf(c)) = <<RateLimitStatus>> )
        => ReasonOf(c).message =
              IF HintOf(c) # <<>>
              THEN <<"Rate limit exceeded. Resets in ", ToString(HintOf(c)[1]), " seconds.">>
              ELSE <<"Rate limit exceeded. Please wait before making more requests.">>

\* ---------------------------------------------------- query builder claims

\* The names the caller handed to the calls of one method, flattened in call order.
RECURSIVE NamesLogged(_, _)
NamesLogged(method, l) ==
    IF l = <<>> THEN <<>>
    ELSE (IF Head(l).method = method THEN Head(l).names ELSE <<>>)
         \o NamesLogged(method, Tail(l))

\* The entries of list that have no equal entry before them, in order.
RECURSIVE FirstInsertionsFrom(_, _)
FirstInsertionsFrom(list, i) ==
    IF i > Len(list) THEN <<>>
    ELSE (IF \E j \in 1..(i - 1) : list[j] = list[i] THEN <<>> ELSE <<list[i]>>)
         \o FirstInsertionsFrom(list, i + 1)

\* The entries of an encoded list parameter name, sep, name, sep, ..., name
\* (none when the parameter is absent).
EntriesOf(param) ==
    IF param = <<>> THEN <<>>
    ELSE [ i \in 1..((Len(param[1]) + 1) \div 2) |-> param[1][2 * i - 1] ]

\* The get() calls that have handed their params to request().
Sent == { c \in DOMAIN params : params[c] # <<>> }

\* C13: in the params of every get(), the entries of include (of select) are the
\* include paths (the selected fields) the caller passed, each exactly once, in
\* the order of first insertion.
C13_DedupFirstInsertion ==
    \A c \in Sent :
        /\ EntriesOf(params[c][1].include)
             = FirstInsertionsFrom(NamesLogged("include", log), 1)
        /\ EntriesOf(params[c][1].select)
             = FirstInsertionsFrom(NamesLogged("select", log), 1)

\* A get() after include(['country']) and include(['venue', 'country']) (in
\* either order) and a select().
C13_Witness ==
    \E c \in Sent :
        /\ Len(NamesLogged("include", log)) = 3
        /\ Len(EntriesOf(params[c][1].include)) = 2
        /\ Len(EntriesOf(params[c][1].select)) > 0


\* str.split(sep) on a string that is a sequence of fragments.
RECURSIVE Split(_, _)
Split(str, sep) ==
    IF \E i \in 1..Len(str) : str[i] = sep
    THEN LET i == CHOOSE k \in 1..Len(str) :
                    str[k] = sep /\ \A j \in 1..(k - 1) : str[j] # sep
         IN  <<SubSeq(str, 1, i - 1)>> \o Split(SubSeq(str, i + 1, Len(str)), sep)
    ELSE <<str>>

\* The entries key:value of an encoded filters parameter.
FilterEntriesOf(param) == IF param = <<>> THEN <<>> ELSE Split(param[1], ";")

\* The positions in log of the filter() calls for key k.
FilterCalls(k) == { i \in 1..Len(log) : log[i].method = "filter" /\ log[i].key = k }

\* The value of the last filter(k, _) call (read only when there is one).
LastFilter(k) ==
    log[CHOOSE i \in FilterCalls(k) : \A j \in FilterCalls(k) : j <= i].value

\* C14: in the params of every get(), each key the caller filtered on has exactly
\* one entry, carrying the value of the last filter() call for that key, and no
\* other key has an entry.
C14_FilterLastWriteWins ==
    \A c \in Sent :
        LET entries == FilterEntriesOf(params[c][1].filters)
        IN  /\ \A k \in FilterKeys :
                 IF FilterCalls(k) = {}
                 THEN \A i \in 1..Len(entries) : entries[i][1] # k
                 ELSE \E i \in 1..Len(entries) :
                        /\ entries[i][1] = k
                        /\ \A j \in 1..Len(entries) : entries[j][1] = k => j = i
                        /\ Split(SubSeq(entries[i], 3, Len(entries[i])), ",")
                             = Stringified(LastFilter(k).items)
            /\ \A i \in 1..Len(entries) : entries[i][1] \in FilterKeys

\* A get() after filter(k, v1), a filter on another key, then filter(k, v2).
C14_Witness ==
    \E c \in Sent :
        /\ Len(log) = 3
        /\ \A i \in 1..3 : log[i].method = "filter"
        /\ log[1].key = log[3].key
        /\ log[1].value # log[3].value
        /\ log[2].key # log[1].key

\* The keys the caller filtered on, in the order of their first filter() call.
RECURSIVE KeysLogged(_)
KeysLogged(l) ==
    IF l = <<>> THEN <<>>
    ELSE (IF Head(l).method = "filter" THEN <<Head(l).key>> ELSE <<>>) \o KeysLogged(Tail(l))

\* items rendered and joined by ','.
RECURSIVE CommaJoined(_)
CommaJoined(items) ==
    IF Len(items) = 1 THEN <<ToString(items[1])>>
    ELSE <<ToString(Head(items)), ",">> \o CommaJoined(Tail(items))

\* key:value of the given keys, joined by ';'.
RECURSIVE SemicolonJoined(_)
SemicolonJoined(keys) ==
    LET entry == <<Head(keys), ":">> \o CommaJoined(LastFilter(Head(keys)).items)
    IN  IF Len(keys) = 1 THEN entry ELSE entry \o <<";">> \o SemicolonJoined(Tail(keys))

\* The filters parameter the caller's filter() calls stand for.
ExpectedFilters ==
    LET keys == FirstInsertionsFrom(KeysLogged(log), 1)
    IN  IF keys = <<>> THEN <<>> ELSE <<SemicolonJoined(keys)>>

\* C15: in the params of every get(), filters is key:value per key, an array
\* value as its elements joined by ',', the entries joined by ';' in insertion
\* order, whatever the include separator of the client is.
C15_FilterRendering == \A c \in Sent : params[c][1].filters = ExpectedFilters

\* A get() of a client whose include separator is ',', after an array filter,
\* a filter on another key and an include of two paths.
C15_Witness ==
    \E c \in Sent :
        /\ client.options.includeSeparator = ","
        /\ params[c][1].filters = << <<"a", ":", "1", ",", "2", ";", "b", ":", "3">> >>
        /\ params[c][1].include = << <<"venue", ",", "country">> >>


\* The positions in log of the calls of the given methods.
CallsOf(methods) == { i \in 1..Len(log) : log[i].method \in methods }

\* The last call of the given methods (read only when there is one).
LastCallOf(methods) ==
    log[CHOOSE i \in CallsOf(methods) : \A j \in CallsOf(methods) : j <= i]

\* The number the caller last set through the given methods, if any.
LastNumber(methods) ==
    IF CallsOf(methods) = {} THEN <<>> ELSE <<LastCallOf(methods).n>>

\* C16: the params of every get() hold include, select, filters and order only
\* when the caller made the matching call, page only after page(n) and per_page
\* only after perPage(n) or limit(n), each with the last n set; with no
\* mutating call the params object is empty.
C16_OnlyExplicitOptions ==
    \A c \in Sent :
        LET q == params[c][1]
        IN  /\ (q.include # <<>>) <=> (CallsOf({"include"}) # {})
            /\ (q.select # <<>>) <=> (CallsOf({"select"}) # {})
            /\ (q.filters # <<>>) <=> (CallsOf({"filter"}) # {})
            /\ (q.order # <<>>) <=> (CallsOf({"orderBy"}) # {})
            /\ q.page = LastNumber({"page"})
            /\ q.per_page = LastNumber({"perPage", "limit"})

\* A get() on a builder whose only mutating call was limit(50): per_page is
\* 50 and nothing else is sent.
C16_Witness ==
    \E c \in Sent :
        /\ Len(log) = 1
        /\ log[1].method = "limit"
        /\ params[c][1] = [ include |-> <<>>, select |-> <<>>, filters |-> <<>>,
                            order |-> <<>>, page |-> <<>>, per_page |-> <<50>> ]

\* The separator the client was configured with.
Configured ==
    IF client.given.includeSeparator = <<>> THEN ";" ELSE client.given.includeSeparator[1]

\* names with sep between them.
RECURSIVE Interleaved(_, _)
Interleaved(names, sep) ==
    IF Len(names) = 1 THEN <<Head(names)>>
    ELSE <<Head(names), sep>> \o Interleaved(Tail(names), sep)

\* The list parameter the given names stand for.
ExpectedList(names, sep) == IF names = <<>> THEN <<>> ELSE <<Interleaved(names, sep)>>

\* The params that the calls in log stand for: a function of the sequence of
\* calls (and of the client's separator) alone.
ExpectedParams ==
    [ include  |-> ExpectedList(FirstInsertionsFrom(NamesLogged("include", log), 1), Configured),
      select   |-> ExpectedList(FirstInsertionsFrom(NamesLogged("select", log), 1), ","),
      filters  |-> ExpectedFilters,
      order    |-> IF CallsOf({"orderBy"}) = {} THEN <<>>
                   ELSE << LastCallOf({"orderBy"}).names >>,
      page     |-> LastNumber({"page"}),
      per_page |-> LastNumber({"perPage", "limit"}) ]

\* C17: the params of every get() are a function of the sequence of builder
\* calls alone (so builders that received the same calls send the same params,
\* and so do two get() calls on one builder), and a get() leaves the builder's
\* options as they were.
C17_DeterministicEncoding ==
    /\ [](\A c \in Sent : params[c][1] = ExpectedParams)
    /\ [][(params' # params) => (builder' = builder)]_vars

\* Two get() calls were made on a builder with includes, filters and a select.
C17_Witness ==
    /\ Sent = BuilderCalls
    /\ params[1] = params[2]
    /\ params[1][1].include # <<>>
    /\ params[1][1].filters # <<>>
    /\ params[1][1].select # <<>>

Requested == { j \in DOMAIN pc : pc[j] # "idle" }

\* The envelope page j was answered with (read only when GetSucceeded(j)).
EnvelopeOf(j) == lastGet[j][1].data[1]

\* Page j came back and ends the collection: no more pages, or no items.
StopsAt(j) ==
    /\ GetSucceeded(j)
    /\ (~EnvelopeOf(j).pagination.has_more \/ EnvelopeOf(j).data = <<>>)

\* The items of pages 1..k, in page order.
RECURSIVE ItemsUpTo(_)
ItemsUpTo(k) == IF k = 0 THEN <<>> ELSE ItemsUpTo(k - 1) \o EnvelopeOf(k).data

\* GETs issued for pages 1..k.
RECURSIVE GetsUpTo(_)
GetsUpTo(k) == IF k = 0 THEN 0 ELSE GetsUpTo(k - 1) + gets[k]

\* C11: getAll() requests the pages in order, page j through a get() with
\* page = j, and none after a page that reports has_more = false or holds no
\* items; once that page k is back, getAll() resolves with the items of pages
\* 1..k in page order, after exactly k page requests (k GETs when none was
\* retried).
C11_GetAllConcatenates ==
    /\ \A j \in Requested :
         /\ params[j][1].page = <<j>>
         /\ \A i \in 1..(j - 1) : GetSucceeded(i) /\ ~StopsAt(i)
    /\ ga.pc = "resolved" =>
         \E k \in DOMAIN pc :
            /\ StopsAt(k)
            /\ Requested = 1..k
            /\ ga.settled = Resolved(ItemsUpTo(k))
            /\ (\A j \in 1..k : sleeps[j] = <<>>) => GetsUpTo(k) = k

\* Three pages with items, the third reporting has_more = false: getAll()
\* resolved after three GETs.
C11_Witness ==
    /\ ga.pc = "resolved"
    /\ Requested = 1..3
    /\ \A j \in 1..3 : EnvelopeOf(j).data # <<>>
    /\ GetsUpTo(3) = 3
    /\ Len(ga.settled[1].value[1]) >= 3

\* C12: once the get() of page j has failed, no later page is requested and
\* getAll() does not resolve; it rejects with the error that get() rejected
\* with, and it rejects for no other cause.
C12_GetAllFailsFast ==
    /\ \A j \in DOMAIN pc :
         pc[j] = "rejected" =>
            /\ \A i \in DOMAIN pc : i > j => pc[i] = "idle"
            /\ ga.pc \in {"waiting", "rejected"}
            /\ ga.pc = "rejected" =>
                 /\ ~ga.settled[1].resolved
                 /\ ga.settled[1].value = <<>>
                 /\ ga.settled[1].reason = <<ReasonOf(j)>>
    /\ ga.pc = "rejected" => \E j \in DOMAIN pc : pc[j] = "rejected"

\* Page 1 brought items, the get() of page 2 failed, and getAll() rejected.
C12_Witness ==
    /\ ga.pc = "rejected"
    /\ pc[2] = "rejected"
    /\ ga.results # <<>>


\* ------------------------------------------------------- error field claims

\* The call rejected after a failed GET.
RejectedAfterGet(c) == pc[c] = "rejected" /\ GetFailed(c)

\* C21 as stated: after a failure without response the surfaced message is the
\* message of the error the GET failed with.
C21_TransportMessageVerbatim ==
    \A c \in Calls :
        (RejectedAfterGet(c) /\ FailureOf(c).response = <<>>) =>
            /\ FailureOf(c).message # <<>>
            /\ ReasonOf(c).message = FailureOf(c).message[1]

\* C21 (amended): statusCode is set exactly when the failed GET had a
\* response, and is then the response's status.  Without response the message
\* is the error's message, or 'Unknown error occurred' for an error the
\* transport does not recognise and whose message is missing or empty.  With a
\* status other than 403, 404 and 429 the message is the upstream message
\* when the body has one, else the error's message.
C21_StatusAndMessage ==
    \A c \in Calls :
        RejectedAfterGet(c) =>
            LET f == FailureOf(c)
                r == ReasonOf(c)
            IN  /\ r.statusCode = StatusOf(f)
                /\ (r.statusCode # <<>>) <=> (f.response # <<>>)
                /\ f.response = <<>> =>
                     r.message = IF f.message # <<>> /\ f.message[1] # <<>>
                                 THEN f.message[1]
                                 ELSE IF f.isAxiosError THEN <<>>
                                 ELSE <<"Unknown error occurred">>
                /\ (f.response # <<>> /\ f.response[1].status \notin {403, 404, 429}) =>
                     r.message = IF UpstreamMessageOf(c) # <<>>
                                 THEN UpstreamMessageOf(c)[1]
                                 ELSE f.message[1]

\* A GET failed with an unrecognised error whose message is the empty
\* string, and the call rejected.
C21_Witness ==
    \E c \in Calls :
        /\ RejectedAfterGet(c)
        /\ ~FailureOf(c).isAxiosError
        /\ FailureOf(c).message = << <<>> >>
        /\ ReasonOf(c).message = <<"Unknown error occurred">>

\* C22: when the body of the failed GET's response carries a field-level
\* errors map, the surfaced error's errors is that map and its apiMessage is
\* the upstream message (unset when the body has none), whatever the status
\* and whatever message the error was given.
C22_ErrorsVerbatim ==
    \A c \in Calls :
        ( /\ RejectedAfterGet(c)
          /\ FailureOf(c).response # <<>>
          /\ DataOf(FailureOf(c))[1].errors # <<>> ) =>
            /\ ReasonOf(c).errors = DataOf(FailureOf(c))[1].errors
            /\ ReasonOf(c).apiMessage = UpstreamMessageOf(c)

\* A 429 with an errors map and an upstream message was surfaced with the
\* rate-limit text as its message.
C22_Witness ==
    \E c \in Calls :
        /\ RejectedAfterGet(c)
        /\ StatusOf(FailureOf(c)) = <<429>>
        /\ DataOf(FailureOf(c))[1].errors # <<>>
        /\ UpstreamMessageOf(c) # <<>>
        /\ ReasonOf(c).message # UpstreamMessageOf(c)[1]


\* ------------------------------------------------------------ poller claims

Unhinted(c) ==
    DataOf(FailureOf(c)') = <<>> \/ DataOf(FailureOf(c)')[1].resets_in_seconds = <<>>

\* The sleeps a non-zero hint asks for (resets_in_seconds * 1000); no backoff
\* delay of the retry options above has one of these lengths.
HintedSleepMs == { 5000 }

\* The sleeps of call c so far that used the computed backoff.
BackoffSleeps(c) == SelectSeq(sleeps[c], LAMBDA ms : ms \notin HintedSleepMs)

\* The sleep the step has just started.
NewSleep(c) == sleeps'[c][Len(sleeps'[c])]

\* C25: the backoff delay after an unhinted failure is
\* min(retryDelay * 2^n, maxRetryDelay) with n the number of earlier retries
\* of the call that used the computed backoff: hinted retries do not count.
C25_HintKeepsExponent ==
    [][ \A c \in Calls :
          (GetFails(c) /\ Retried(c) /\ Unhinted(c)) =>
              NewSleep(c) = Min(retryOptions.retryDelay * Pow2(Len(BackoffSleeps(c))),
                                retryOptions.maxRetryDelay) ]_vars

OwnState(c) ==
    <<pc[c], url[c], params[c], attempt[c], lastError[c], settled[c], gets[c], lastGet[c],
      sleeps[c]>>

\* C27: with two request() calls in flight, every step changes the state of
\* one call only and leaves retryOptions alone; each call issues at most
\* maxRetries + 1 GETs and settles with the outcome of its own last GET; and
\* while one call sleeps, the other call can start, and its pending GET can
\* complete.
C27_CallsIndependent ==
    /\ [][ /\ retryOptions' = retryOptions
           /\ \A c, d \in ConcurrentCalls :
                (c # d /\ OwnState(c)' # OwnState(c)) => OwnState(d)' = OwnState(d) ]_vars
    /\ [](\A c \in ConcurrentCalls :
            /\ gets[c] <= retryOptions.maxRetries + 1
            /\ pc[c] = "rejected" => ReasonOf(c) = handleError(<<FailureOf(c)>>, url[c])
            /\ pc[c] = "resolved" =>
                 GetSucceeded(c) /\ settled[c] = Resolved(lastGet[c][1].data[1])
            /\ \A d \in ConcurrentCalls :
                 (d # c /\ pc[c] = "sleep") =>
                    /\ (pc[d] = "idle" /\ builder # <<>>) => ENABLED request(d)
                    /\ pc[d] = "get" => \A data \in Bodies : ENABLED getFulfilled(d, data))

\* Call 1 sleeps after a failure while call 2, started later, is already at
\* its second GET.
C27_Witness ==
    /\ pc[1] = "sleep"
    /\ pc[2] = "get"
    /\ gets[1] = 1
    /\ gets[2] = 2
    /\ lastError[1] # lastError[2]


\* ---------------------------------------------------- loop structure claims

\* C28: within one call GETs and sleeps alternate, starting and ending with
\* a GET: while a GET is pending, and once the call has settled, there is one
\* sleep less than GETs (so at least one GET), and during a sleep there are as
\* many sleeps as GETs.
C28_GetsAndSleepsAlternate ==
    \A c \in Calls :
        /\ pc[c] = "idle" => gets[c] = 0 /\ sleeps[c] = <<>>
        /\ pc[c] = "sleep" => Len(sleeps[c]) = gets[c]
        /\ pc[c] \in {"get", "resolved", "rejected"} =>
             gets[c] >= 1 /\ Len(sleeps[c]) = gets[c] - 1

\* C29: when every pending GET settles and every sleep elapses, a request()
\* call that has started resolves or rejects.
C29_RequestTerminates ==
    \A c \in Calls : (pc[c] # "idle") ~> (pc[c] \in {"resolved", "rejected"})

\* A call rejected after maxRetries + 1 = 3 GETs and two sleeps.
C29_Witness ==
    \E c \in Calls :
        /\ pc[c] = "rejected"
        /\ retryOptions.maxRetries = 2
        /\ gets[c] = 3
        /\ Len(sleeps[c]) = 2

\* C30: for every maxRetries the constructor accepts, a rejected call has
\* issued at least one GET, and its rejection is the SportMonksError made of
\* the failure of its last GET.
C30_RejectsOnlyAfterGet ==
    \A c \in Calls :
        pc[c] = "rejected" =>
            /\ gets[c] >= 1
            /\ GetFailed(c)
            /\ ReasonOf(c).name = "SportMonksError"
            /\ ReasonOf(c) = handleError(<<FailureOf(c)>>, url[c])


====
